---- MODULE Spec2Model ----
(***************************************************************************)
(* Model of package noise (src/unnamed/part_000): the Noise channel that   *)
(* drives a flynn/noise handshake (patterns KK and XK) and then encrypts   *)
(* and decrypts transport frames with 8-byte sequence headers.             *)
(*                                                                         *)
(* Cryptography is symbolic.  A key pair is named by one string, a         *)
(* Diffie-Hellman result is the two key names in a fixed order, the        *)
(* symmetric state of the handshake is the text of everything mixed into   *)
(* it, and an AEAD box opens only under the key and nonce that sealed it.  *)
(*                                                                         *)
(* Spec runs the calls of two channels one at a time; SpecConc splits the  *)
(* transport calls of one channel into their memory accesses and           *)
(* interleaves them; SpecDisc is the dmsg-discovery command                *)
(* (src/cmd/dmsg-discovery/commands/root.go) binding and serving.          *)
(***************************************************************************)
EXTENDS Integers, Sequences, FiniteSets, TLC

VARIABLES
    ns,        \* ns[c]: the fields of the Noise object of channel c
    cfg,       \* cfg[c]: the Config channel c was constructed with
    hsNet,     \* hsNet[c]: handshake messages channel c has produced, in order
    net,       \* net[c]: transport frames channel c has produced, in order
    hwm,       \* hwm[c]: highest counter of a frame DecryptUnsafe returned plaintext for (history)
    calls,     \* calls[c]: EncryptUnsafe calls made on c, handshake steps c performed
               \* without error, whether a DecryptUnsafe call has failed
               \* authentication on c, whether a sequence counter of c was advanced
               \* while c lacked the cipher state the call uses (history)
    delivered, \* delivered[c]: k when the DecryptUnsafe calls made on c so far were
               \* handed exactly frames 1..k of the peer, unaltered; -1 otherwise (history)
    last,      \* the last call made: operation, channel, input, outcome (history)
    thr,       \* thr[t]: the transport call thread t is executing on the initiator's
               \* channel: its position in the code, its locals, what it returned
    obs,       \* what has been observed of the concurrent calls (history)
    disc       \* the dmsg-discovery command (commands/root.go): the position of
               \* Run and of its serving goroutine, the listener, the context, the log

concVars == <<thr, obs>>
noiseVars == <<ns, cfg, hsNet, net, hwm, calls, delivered, last>>
vars == <<ns, cfg, hsNet, net, hwm, calls, delivered, last, thr, obs, disc>>

----------------------------------------------------------------------------
\* Bounds of the model.

\* EncryptUnsafe calls, over both channels.
MaxSeq == 2
\* DecryptUnsafe calls with a header (>= 8 bytes), over both channels.
MaxRecv == 3
\* Calls a caller should not make (a transport call on a channel that lacks
\* the cipher state it uses, a handshake call that returns an error) are
\* made only while the sequence counters have counted fewer than MaxEarly
\* transport calls, over both channels.
MaxEarly == 1
\* Requests the discovery server handles.
MaxServe == 3

----------------------------------------------------------------------------
\* Constants of the program and symbolic values.

nonceSize == 8

Nil == "nil"
Chan == {"I", "R"}
Peer(c) == IF c = "I" THEN "R" ELSE "I"

\* Static key pairs: kI belongs to the initiator, kR to the responder,
\* kM to a third party.  NullPK is the null public key.
NullPK == "null"
StaticOf(c) == IF c = "I" THEN "kI" ELSE "kR"
\* The ephemeral key rand.Reader yields for a role: fresh and unlike the
\* peer's.
Rand(initiator) == IF initiator THEN "eI" ELSE "eR"

\* Plaintexts handed to EncryptUnsafe: the empty one and a non-empty one.
Plaintexts == {<<>>, <<7>>}

----------------------------------------------------------------------------
\* Handshake patterns of the library (Messages: the tokens of each message).

HandshakeKK ==
    [name |-> "KK", initPre |-> <<"s">>, respPre |-> <<"s">>,
     Messages |-> << <<"e", "es", "ss">>, <<"e", "ee", "se">> >>]

HandshakeXK ==
    [name |-> "XK", initPre |-> <<>>, respPre |-> <<"s">>,
     Messages |-> << <<"e", "es">>, <<"e", "ee">>, <<"s", "se">> >>]

\* The pattern a name stands for.
Pattern(name) == IF name = "KK" THEN HandshakeKK ELSE HandshakeXK

----------------------------------------------------------------------------
\* Symbolic primitives.

\* Diffie-Hellman of a private key and a public key: commutative, so the
\* two names are written in the order KeyOrd gives.
KeyOrd(k) ==
    CASE k = "eI" -> 1 [] k = "eR" -> 2 [] k = "kI" -> 3 [] k = "kR" -> 4
      [] k = "kM" -> 5 [] OTHER -> 6

DH(priv, pub) ==
    IF KeyOrd(priv) <= KeyOrd(pub) THEN priv \o "*" \o pub ELSE pub \o "*" \o priv

\* The symmetric state: t is the transcript (everything hashed or mixed in,
\* in order), hasK tells whether a key has been mixed.
MixHash(ss, x) == [ss EXCEPT !.t = @ \o "|h:" \o x]
MixKey(ss, dh) == [t |-> ss.t \o "|k:" \o dh, hasK |-> TRUE]

\* EncryptAndHash: with a key the output is bound to the whole transcript.
EncryptAndHash(ss, pt) ==
    [ct |-> [pt |-> pt, auth |-> IF ss.hasK THEN ss.t ELSE ""],
     ss |-> MixHash(ss, pt)]

\* DecryptAndHash: with a key, fails unless the sender's transcript is ours.
DecryptAndHash(ss, ct) ==
    IF ss.hasK /\ ct.auth # ss.t
        THEN [ok |-> FALSE, pt |-> "", ss |-> ss]
        ELSE [ok |-> TRUE, pt |-> ct.pt, ss |-> MixHash(ss, ct.pt)]

\* Split: the two cipher states derived from the final transcript.
Split(ss) == <<ss.t \o "/1", ss.t \o "/2">>

\* AEAD of a cipher state: Encrypt(out, n, ad, plaintext) with no ad.  flip
\* is 0 for the bytes Encrypt produced and names the altered bit otherwise.
CipherEncrypt(cs, n, pt) == [key |-> cs, nonce |-> n, pt |-> pt, flip |-> 0]

\* AEAD Decrypt(out, n, ad, ciphertext): body is the bytes after the header,
\* empty or one box.
CipherDecrypt(cs, n, body) ==
    IF Len(body) = 1 /\ body[1].key = cs /\ body[1].nonce = n /\ body[1].flip = 0
        THEN [pt |-> body[1].pt, err |-> Nil]
        ELSE [pt |-> <<>>, err |-> "decrypt"]

\* Big-endian encoding of n in k bytes, and the number a byte string encodes.
RECURSIVE PutUint(_, _)
PutUint(n, k) == IF k = 0 THEN <<>> ELSE Append(PutUint(n \div 256, k - 1), n % 256)

RECURSIVE Uint(_)
Uint(b) == IF b = <<>> THEN 0 ELSE Uint(SubSeq(b, 1, Len(b) - 1)) * 256 + b[Len(b)]

\* The counters that occur in the headers of the model, and
\* binary.BigEndian.PutUint64 / Uint64 tabulated over them.
Counters == 0..(MaxSeq + 1)
PutUint64 == [n \in Counters |-> PutUint(n, nonceSize)]
Uint64 == [b \in {PutUint64[n] : n \in Counters} |-> Uint(b)]

----------------------------------------------------------------------------
\* The library's HandshakeState, as created and driven by the Noise object.

\* A cipher state that is not set (a nil *CipherState).
NilCS == ""

\* A handshake message: the cleartext ephemeral key ("" when the step sends
\* none), the encrypted static key (a sequence of at most one sealed item)
\* and the sealed empty payload.  NoMsg is what a failed write returns, and
\* a message too short for any pattern step.
NoMsg == [e |-> "", s |-> <<>>, payload |-> <<>>]

\* noise.NewHandshakeState(nc): rs is seeded from nc.PeerStatic; the protocol
\* name and the pattern's pre-messages are hashed into the symmetric state.
NewHandshakeState(pattern, initiator, static, peerStatic, rng) ==
    LET ss0 == [t |-> pattern.name, hasK |-> FALSE]
        ss1 == IF pattern.initPre = <<"s">>
                   THEN MixHash(ss0, IF initiator THEN static ELSE peerStatic)
                   ELSE ss0
        ss2 == IF pattern.respPre = <<"s">>
                   THEN MixHash(ss1, IF initiator THEN peerStatic ELSE static)
                   ELSE ss1
    IN  [msgIdx |-> 0, shouldWrite |-> initiator, initiator |-> initiator,
         pattern |-> pattern.name,
         s |-> static, rs |-> peerStatic, rng |-> rng, e |-> NullPK, re |-> NullPK,
         ss |-> ss2]

\* The Diffie-Hellman a token stands for, by role.
TokenDH(hs, tk) ==
    CASE tk = "ee" -> DH(hs.e, hs.re)
      [] tk = "es" -> IF hs.initiator THEN DH(hs.e, hs.rs) ELSE DH(hs.s, hs.re)
      [] tk = "se" -> IF hs.initiator THEN DH(hs.s, hs.re) ELSE DH(hs.e, hs.rs)
      [] tk = "ss" -> DH(hs.s, hs.rs)

\* The token loop of WriteMessage.
RECURSIVE WriteTokens(_, _, _)
WriteTokens(hs, out, toks) ==
    IF toks = <<>> THEN [hs |-> hs, out |-> out]
    ELSE LET tk == Head(toks) IN
         CASE tk = "e" ->
                  WriteTokens([hs EXCEPT !.e = hs.rng, !.ss = MixHash(hs.ss, hs.rng)],
                              [out EXCEPT !.e = hs.rng], Tail(toks))
           [] tk = "s" ->
                  LET r == EncryptAndHash(hs.ss, hs.s) IN
                  WriteTokens([hs EXCEPT !.ss = r.ss],
                              [out EXCEPT !.s = <<r.ct>>], Tail(toks))
           [] OTHER ->
                  WriteTokens([hs EXCEPT !.ss = MixKey(hs.ss, TokenDH(hs, tk))],
                              out, Tail(toks))

\* HandshakeState.WriteMessage(nil, nil): (out, cs1, cs2, err).
WriteMessage(hs) ==
    IF ~hs.shouldWrite
        THEN [hs |-> hs, out |-> NoMsg, cs1 |-> NilCS, cs2 |-> NilCS,
              err |-> "unexpected call to WriteMessage"]
    ELSE IF hs.msgIdx > Len(Pattern(hs.pattern).Messages) - 1
        THEN [hs |-> hs, out |-> NoMsg, cs1 |-> NilCS, cs2 |-> NilCS,
              err |-> "no handshake messages left"]
    ELSE LET w   == WriteTokens(hs, NoMsg, Pattern(hs.pattern).Messages[hs.msgIdx + 1])
             p   == EncryptAndHash(w.hs.ss, "")
             hs2 == [w.hs EXCEPT !.ss = p.ss, !.shouldWrite = FALSE,
                                 !.msgIdx = hs.msgIdx + 1]
             fin == hs2.msgIdx >= Len(Pattern(hs.pattern).Messages)
         IN  [hs |-> hs2, out |-> [w.out EXCEPT !.payload = <<p.ct>>],
              cs1 |-> IF fin THEN Split(hs2.ss)[1] ELSE NilCS,
              cs2 |-> IF fin THEN Split(hs2.ss)[2] ELSE NilCS,
              err |-> Nil]

\* The token loop of ReadMessage: err is set by the first token that fails,
\* rsSet tells whether this message set rs.
RECURSIVE ReadTokens(_, _, _, _)
ReadTokens(hs, msg, toks, rsSet) ==
    IF toks = <<>> THEN [hs |-> hs, err |-> Nil, rsSet |-> rsSet, rollback |-> FALSE]
    ELSE LET tk == Head(toks) IN
         CASE tk = "e" ->
                  IF msg.e = ""
                      THEN [hs |-> hs, err |-> "short message", rsSet |-> rsSet,
                            rollback |-> FALSE]
                      ELSE ReadTokens([hs EXCEPT !.re = msg.e,
                                                 !.ss = MixHash(hs.ss, msg.e)],
                                      msg, Tail(toks), rsSet)
           [] tk = "s" ->
                  IF msg.s = <<>>
                      THEN [hs |-> hs, err |-> "short message", rsSet |-> rsSet,
                            rollback |-> FALSE]
                  ELSE IF hs.rs # NullPK
                      THEN [hs |-> hs, err |-> "invalid state, rs is not nil",
                            rsSet |-> rsSet, rollback |-> FALSE]
                  ELSE LET d == DecryptAndHash(hs.ss, msg.s[1]) IN
                       IF ~d.ok
                           THEN [hs |-> hs, err |-> "decrypt", rsSet |-> TRUE,
                                 rollback |-> TRUE]
                           ELSE ReadTokens([hs EXCEPT !.rs = d.pt, !.ss = d.ss],
                                           msg, Tail(toks), TRUE)
           [] OTHER ->
                  ReadTokens([hs EXCEPT !.ss = MixKey(hs.ss, TokenDH(hs, tk))],
                             msg, Tail(toks), rsSet)

\* HandshakeState.ReadMessage(nil, msg): (out, cs1, cs2, err).  A failed
\* decryption rolls the symmetric state back to the checkpoint taken on
\* entry and clears an rs this message had set; re keeps what was read.
ReadMessage(hs, msg) ==
    IF hs.shouldWrite
        THEN [hs |-> hs, cs1 |-> NilCS, cs2 |-> NilCS,
              err |-> "unexpected call to ReadMessage"]
    ELSE IF hs.msgIdx > Len(Pattern(hs.pattern).Messages) - 1
        THEN [hs |-> hs, cs1 |-> NilCS, cs2 |-> NilCS,
              err |-> "no handshake messages left"]
    ELSE LET r    == ReadTokens(hs, msg, Pattern(hs.pattern).Messages[hs.msgIdx + 1], FALSE)
             undo == [r.hs EXCEPT !.ss = hs.ss,
                                  !.rs = IF r.rsSet THEN NullPK ELSE r.hs.rs]
         IN  IF r.err # Nil
                 THEN [hs |-> IF r.rollback THEN undo ELSE r.hs,
                       cs1 |-> NilCS, cs2 |-> NilCS, err |-> r.err]
             ELSE IF msg.payload = <<>>
                 THEN [hs |-> undo, cs1 |-> NilCS, cs2 |-> NilCS, err |-> "decrypt"]
             ELSE LET d == DecryptAndHash(r.hs.ss, msg.payload[1]) IN
                  IF ~d.ok
                      THEN [hs |-> undo, cs1 |-> NilCS, cs2 |-> NilCS, err |-> "decrypt"]
                      ELSE LET hs2 == [r.hs EXCEPT !.ss = d.ss, !.shouldWrite = TRUE,
                                                   !.msgIdx = hs.msgIdx + 1]
                               fin == hs2.msgIdx >= Len(Pattern(hs.pattern).Messages)
                           IN  [hs |-> hs2,
                                cs1 |-> IF fin THEN Split(hs2.ss)[1] ELSE NilCS,
                                cs2 |-> IF fin THEN Split(hs2.ss)[2] ELSE NilCS,
                                err |-> Nil]

----------------------------------------------------------------------------
\* The Noise object and its methods.  A method is an operator from the
\* object's fields to the new fields and what the call returns.

\* New with the seeding of PeerStatic left out.
NewUnpinned(pattern, config) ==
    [pk |-> config.LocalPK, sk |-> config.LocalSK, init |-> config.Initiator,
     pattern |-> pattern.name,
     hs |-> NewHandshakeState(pattern, config.Initiator, config.LocalSK, NullPK,
                              Rand(config.Initiator)),
     enc |-> NilCS, dec |-> NilCS, encNonce |-> 0, decNonce |-> 0]

\* New(pattern, config): PeerStatic is seeded only from a non-null RemotePK;
\* enc, dec and both counters start at their zero values.
New(pattern, config) ==
    [pk |-> config.LocalPK, sk |-> config.LocalSK, init |-> config.Initiator,
     pattern |-> pattern.name,
     hs |-> NewHandshakeState(pattern, config.Initiator, config.LocalSK,
                              IF config.RemotePK # NullPK THEN config.RemotePK ELSE NullPK,
                              Rand(config.Initiator)),
     enc |-> NilCS, dec |-> NilCS, encNonce |-> 0, decNonce |-> 0]

\* KKAndSecp256k1 / XKAndSecp256k1.
KKAndSecp256k1(config) == New(HandshakeKK, config)
XKAndSecp256k1(config) == New(HandshakeXK, config)

\* HandshakeMessage with the library's error dropped.
HandshakeMessageNoErr(n) ==
    LET w == WriteMessage(n.hs) IN
    IF n.hs.msgIdx < Len(Pattern(n.pattern).Messages) - 1
        THEN [ns |-> [n EXCEPT !.hs = w.hs], res |-> w.out, err |-> Nil]
        ELSE [ns |-> [n EXCEPT !.hs = w.hs, !.dec = w.cs1, !.enc = w.cs2],
              res |-> w.out, err |-> Nil]

\* HandshakeMessage: before the last step the cipher states WriteMessage
\* returns are dropped; from the last step on they are assigned, dec first.
HandshakeMessage(n) ==
    LET w == WriteMessage(n.hs) IN
    IF n.hs.msgIdx < Len(Pattern(n.pattern).Messages) - 1
        THEN [ns |-> [n EXCEPT !.hs = w.hs], res |-> w.out, err |-> w.err]
        ELSE [ns |-> [n EXCEPT !.hs = w.hs, !.dec = w.cs1, !.enc = w.cs2],
              res |-> w.out, err |-> w.err]

\* ProcessMessage assigning the cipher states in HandshakeMessage's order.
ProcessMessageSameOrder(n, msg) ==
    LET r == ReadMessage(n.hs, msg) IN
    IF n.hs.msgIdx < Len(Pattern(n.pattern).Messages) - 1
        THEN [ns |-> [n EXCEPT !.hs = r.hs], err |-> r.err]
        ELSE [ns |-> [n EXCEPT !.hs = r.hs, !.dec = r.cs1, !.enc = r.cs2],
              err |-> r.err]

\* ProcessMessage: as HandshakeMessage, with enc assigned first.
ProcessMessage(n, msg) ==
    LET r == ReadMessage(n.hs, msg) IN
    IF n.hs.msgIdx < Len(Pattern(n.pattern).Messages) - 1
        THEN [ns |-> [n EXCEPT !.hs = r.hs], err |-> r.err]
        ELSE [ns |-> [n EXCEPT !.hs = r.hs, !.enc = r.cs1, !.dec = r.cs2],
              err |-> r.err]

\* LocalStatic.
LocalStatic(n) == n.pk

\* cipher.NewPubKey(b): an error for bytes that are not a public key (none, when
\* the handshake state holds no peer static key).
NewPubKey(b) ==
    IF b = NullPK THEN [pk |-> NullPK, err |-> "invalid public key length"]
                  ELSE [pk |-> b, err |-> Nil]

\* RemoteStatic returning whatever the handshake state holds, unchecked.
RemoteStaticUnchecked(n) ==
    [pk |-> n.hs.rs, status |-> "ok", err |-> Nil]

\* RemoteStatic: the handshake state's peer static key; panic(err) when
\* NewPubKey refuses it.
RemoteStatic(n) ==
    LET r == NewPubKey(n.hs.rs) IN
    IF r.err # Nil THEN [pk |-> NullPK, status |-> "panic", err |-> r.err]
                   ELSE [pk |-> r.pk, status |-> "ok", err |-> Nil]

\* HandshakeFinished.
HandshakeFinished(n) == n.hs.msgIdx = Len(Pattern(n.pattern).Messages)

\* atomic.AddUint64(addr, 1): the new value.
AddUint64(v) == v + 1

\* atomic.CompareAndSwapUint64(addr, old, new): the value left at addr.
CompareAndSwapUint64(cur, old, new) == IF cur = old THEN new ELSE cur

\* EncryptUnsafe going on without a send cipher state.
EncryptUnsafeNilTolerant(n, plaintext) ==
    LET nonce == AddUint64(n.encNonce)
        n1    == [n EXCEPT !.encNonce = nonce]
        buf   == PutUint64[nonce]
    IN  [ns |-> n1, out |-> buf \o <<CipherEncrypt(n.enc, nonce, plaintext)>>,
         status |-> "ok"]

\* EncryptUnsafe sealing under the counter's value before the increment.
EncryptUnsafeStaleNonce(n, plaintext) ==
    LET nonce == AddUint64(n.encNonce)
        n1    == [n EXCEPT !.encNonce = nonce]
        buf   == PutUint64[nonce]
    IN  IF n.enc = NilCS
            THEN [ns |-> n1, out |-> <<>>, status |-> "panic"]
            ELSE [ns |-> n1,
                  out |-> buf \o <<CipherEncrypt(n.enc, n.encNonce, plaintext)>>,
                  status |-> "ok"]

\* EncryptUnsafe: the counter is incremented first; a nil send cipher state
\* then makes ns.enc.Cipher() panic.
EncryptUnsafe(n, plaintext) ==
    LET nonce == AddUint64(n.encNonce)
        n1    == [n EXCEPT !.encNonce = nonce]
        buf   == PutUint64[nonce]
    IN  IF n.enc = NilCS
            THEN [ns |-> n1, out |-> <<>>, status |-> "panic"]
            ELSE [ns |-> n1, out |-> buf \o <<CipherEncrypt(n.enc, nonce, plaintext)>>,
                  status |-> "ok"]

\* DecryptUnsafe comparing against the incremented counter (the "- 1" left out).
DecryptUnsafeOffByOne(n, ciphertext) ==
    IF Len(ciphertext) = 0
        THEN [ns |-> n, data |-> <<>>, status |-> "ok", recvSeq |-> 0, lastSeq |-> 0]
    ELSE IF Len(ciphertext) < nonceSize
        THEN [ns |-> n, data |-> <<>>, status |-> "panic", recvSeq |-> 0, lastSeq |-> 0]
    ELSE LET recvSeq == Uint64[SubSeq(ciphertext, 1, nonceSize)]
             added   == AddUint64(n.decNonce)
             lastSeq == added
             n1      == [n EXCEPT !.decNonce = added]
             n2      == [n EXCEPT !.decNonce = CompareAndSwapUint64(added, lastSeq, recvSeq)]
             d       == CipherDecrypt(n.dec, recvSeq,
                                      SubSeq(ciphertext, nonceSize + 1, Len(ciphertext)))
         IN  IF recvSeq <= lastSeq
                 THEN [ns |-> n1, data |-> <<>>, status |-> "rejected",
                       recvSeq |-> recvSeq, lastSeq |-> lastSeq]
             ELSE IF n.dec = NilCS
                 THEN [ns |-> n2, data |-> <<>>, status |-> "panic",
                       recvSeq |-> recvSeq, lastSeq |-> lastSeq]
             ELSE [ns |-> n2, data |-> d.pt,
                   status |-> IF d.err = Nil THEN "ok" ELSE "error",
                   recvSeq |-> recvSeq, lastSeq |-> lastSeq]

\* DecryptUnsafe returning what the body holds whatever the AEAD reports.
DecryptUnsafeIgnoreErr(n, ciphertext) ==
    IF Len(ciphertext) = 0
        THEN [ns |-> n, data |-> <<>>, status |-> "ok", recvSeq |-> 0, lastSeq |-> 0]
    ELSE IF Len(ciphertext) < nonceSize
        THEN [ns |-> n, data |-> <<>>, status |-> "panic", recvSeq |-> 0, lastSeq |-> 0]
    ELSE LET recvSeq == Uint64[SubSeq(ciphertext, 1, nonceSize)]
             added   == AddUint64(n.decNonce)
             lastSeq == added - 1
             n1      == [n EXCEPT !.decNonce = added]
             n2      == [n EXCEPT !.decNonce = CompareAndSwapUint64(added, lastSeq, recvSeq)]
             body    == SubSeq(ciphertext, nonceSize + 1, Len(ciphertext))
         IN  IF recvSeq <= lastSeq
                 THEN [ns |-> n1, data |-> <<>>, status |-> "rejected",
                       recvSeq |-> recvSeq, lastSeq |-> lastSeq]
             ELSE IF n.dec = NilCS
                 THEN [ns |-> n2, data |-> <<>>, status |-> "panic",
                       recvSeq |-> recvSeq, lastSeq |-> lastSeq]
             ELSE [ns |-> n2, data |-> IF body = <<>> THEN <<>> ELSE body[1].pt,
                   status |-> "ok", recvSeq |-> recvSeq, lastSeq |-> lastSeq]

\* DecryptUnsafe advancing the receive counter on empty input too.
DecryptUnsafeCountsEmpty(n, ciphertext) ==
    IF Len(ciphertext) = 0
        THEN [ns |-> [n EXCEPT !.decNonce = AddUint64(n.decNonce)], data |-> <<>>,
              status |-> "ok", recvSeq |-> 0, lastSeq |-> 0]
    ELSE IF Len(ciphertext) < nonceSize
        THEN [ns |-> n, data |-> <<>>, status |-> "panic", recvSeq |-> 0, lastSeq |-> 0]
    ELSE LET recvSeq == Uint64[SubSeq(ciphertext, 1, nonceSize)]
             added   == AddUint64(n.decNonce)
             lastSeq == added - 1
             n1      == [n EXCEPT !.decNonce = added]
             n2      == [n EXCEPT !.decNonce = CompareAndSwapUint64(added, lastSeq, recvSeq)]
             d       == CipherDecrypt(n.dec, recvSeq,
                                      SubSeq(ciphertext, nonceSize + 1, Len(ciphertext)))
         IN  IF recvSeq <= lastSeq
                 THEN [ns |-> n1, data |-> <<>>, status |-> "rejected",
                       recvSeq |-> recvSeq, lastSeq |-> lastSeq]
             ELSE IF n.dec = NilCS
                 THEN [ns |-> n2, data |-> <<>>, status |-> "panic",
                       recvSeq |-> recvSeq, lastSeq |-> lastSeq]
             ELSE [ns |-> n2, data |-> d.pt,
                   status |-> IF d.err = Nil THEN "ok" ELSE "error",
                   recvSeq |-> recvSeq, lastSeq |-> lastSeq]

\* DecryptUnsafe testing the length of the input after advancing the counter.
DecryptUnsafeLateLenCheck(n, ciphertext) ==
    IF Len(ciphertext) = 0
        THEN [ns |-> n, data |-> <<>>, status |-> "ok", recvSeq |-> 0, lastSeq |-> 0]
    ELSE IF Len(ciphertext) < nonceSize
        THEN [ns |-> [n EXCEPT !.decNonce = AddUint64(n.decNonce)], data |-> <<>>,
              status |-> "panic", recvSeq |-> 0, lastSeq |-> 0]
    ELSE LET recvSeq == Uint64[SubSeq(ciphertext, 1, nonceSize)]
             added   == AddUint64(n.decNonce)
             lastSeq == added - 1
             n1      == [n EXCEPT !.decNonce = added]
             n2      == [n EXCEPT !.decNonce = CompareAndSwapUint64(added, lastSeq, recvSeq)]
             d       == CipherDecrypt(n.dec, recvSeq,
                                      SubSeq(ciphertext, nonceSize + 1, Len(ciphertext)))
         IN  IF recvSeq <= lastSeq
                 THEN [ns |-> n1, data |-> <<>>, status |-> "rejected",
                       recvSeq |-> recvSeq, lastSeq |-> lastSeq]
             ELSE IF n.dec = NilCS
                 THEN [ns |-> n2, data |-> <<>>, status |-> "panic",
                       recvSeq |-> recvSeq, lastSeq |-> lastSeq]
             ELSE [ns |-> n2, data |-> d.pt,
                   status |-> IF d.err = Nil THEN "ok" ELSE "error",
                   recvSeq |-> recvSeq, lastSeq |-> lastSeq]

\* DecryptUnsafe.  status: "ok" (plaintext, nil error), "rejected" (nil, nil),
\* "error" (the AEAD's error), "panic".
DecryptUnsafe(n, ciphertext) ==
    IF Len(ciphertext) = 0
        THEN [ns |-> n, data |-> <<>>, status |-> "ok", recvSeq |-> 0, lastSeq |-> 0]
    ELSE IF Len(ciphertext) < nonceSize
        THEN [ns |-> n, data |-> <<>>, status |-> "panic", recvSeq |-> 0, lastSeq |-> 0]
    ELSE LET recvSeq == Uint64[SubSeq(ciphertext, 1, nonceSize)]
             added   == AddUint64(n.decNonce)
             lastSeq == added - 1
             n1      == [n EXCEPT !.decNonce = added]
             n2      == [n EXCEPT !.decNonce = CompareAndSwapUint64(added, lastSeq, recvSeq)]
             d       == CipherDecrypt(n.dec, recvSeq,
                                      SubSeq(ciphertext, nonceSize + 1, Len(ciphertext)))
         IN  IF recvSeq <= lastSeq
                 THEN [ns |-> n1, data |-> <<>>, status |-> "rejected",
                       recvSeq |-> recvSeq, lastSeq |-> lastSeq]
             ELSE IF n.dec = NilCS
                 THEN [ns |-> n2, data |-> <<>>, status |-> "panic",
                       recvSeq |-> recvSeq, lastSeq |-> lastSeq]
             ELSE [ns |-> n2, data |-> d.pt,
                   status |-> IF d.err = Nil THEN "ok" ELSE "error",
                   recvSeq |-> recvSeq, lastSeq |-> lastSeq]

----------------------------------------------------------------------------
\* The state machine: two channels, I (initiator) and R (responder), built
\* with the same pattern; every message a channel produces stays available
\* to the other side in any order and any number of times.

\* The Configs a channel is constructed with.  RemotePK is the peer's key,
\* a third party's key, or (XK responder, which learns it) the null key.
Configs(p, c) ==
    {[LocalPK |-> StaticOf(c), LocalSK |-> StaticOf(c), RemotePK |-> r,
      Initiator |-> (c = "I")] :
        r \in {StaticOf(Peer(c)), "kM"} \cup
              (IF p = "XK" /\ c = "R" THEN {NullPK} ELSE {})}

\* The callers that use a channel in transport mode at the same time.
Threads == {"t1", "t2"}

\* A thread that is in no call, and the observations when no concurrent call
\* has been made on a channel whose fields are n.
NoThread ==
    [pc |-> "idle", op |-> "none", in |-> <<>>, nonce |-> 0, recvSeq |-> 0,
     lastSeq |-> 0, ret |-> [status |-> "none", data |-> <<>>],
     want |-> [status |-> "none", data |-> <<>>]]

NoObs(n) ==
    [shE |-> n, shD |-> n, nonces |-> <<>>, Ls |-> <<>>,
     encCallers |-> {}, decCallers |-> {}, encCalls |-> 0, decCalls |-> 0,
     overlap |-> {}]

\* The dmsg-discovery command before it is run.
NoProcess ==
    [addr |-> ":9090", main |-> "none", srv |-> "none", bg |-> "none", ctx |-> "none",
     ln |-> "nil", err |-> Nil, ret |-> Nil, served |-> 0, log |-> <<>>,
     proc |-> "none"]

NoCall ==
    [op |-> "none", c |-> "I", status |-> "ok", err |-> Nil, data |-> <<>>,
     R |-> 0, L |-> 0, len |-> 0, src |-> 0, flip |-> 0, ownHdr |-> FALSE,
     preHwm |-> 0, preAuthErr |-> FALSE, preCalls |-> 0, preIdx |-> 0,
     preWrite |-> FALSE, preSet |-> FALSE, key |-> NullPK]

Init ==
    \E p \in {"KK", "XK"} :
        /\ cfg \in [Chan -> UNION {Configs(p, c) : c \in Chan}]
        /\ \A c \in Chan : cfg[c] \in Configs(p, c)
        /\ ns = [c \in Chan |-> IF p = "KK" THEN KKAndSecp256k1(cfg[c])
                                             ELSE XKAndSecp256k1(cfg[c])]
        /\ hsNet = [c \in Chan |-> <<>>]
        /\ net = [c \in Chan |-> <<>>]
        /\ hwm = [c \in Chan |-> 0]
        /\ calls = [c \in Chan |-> [enc |-> 0, steps |-> 0, authErr |-> FALSE, early |-> FALSE]]
        /\ delivered = [c \in Chan |-> 0]
        /\ last = NoCall
        /\ thr = [t \in Threads |-> NoThread]
        /\ obs = NoObs(ns["I"])
        /\ disc = NoProcess

Max(a, b) == IF a >= b THEN a ELSE b

\* Transport calls counted by the sequence counters so far.
Counted == ns["I"].encNonce + ns["R"].encNonce + ns["I"].decNonce + ns["R"].decNonce

\* A call of HandshakeMessage on channel c; the message goes to the peer.
DoHandshakeMessage(c) ==
    LET r == HandshakeMessage(ns[c]) IN
    /\ r.err # Nil => Counted < MaxEarly
    /\ ns' = [ns EXCEPT ![c] = r.ns]
    /\ hsNet' = IF r.err = Nil THEN [hsNet EXCEPT ![c] = Append(@, r.res)] ELSE hsNet
    /\ last' = [NoCall EXCEPT !.op = "HandshakeMessage", !.c = c,
                              !.status = IF r.err = Nil THEN "ok" ELSE "error",
                              !.err = r.err, !.preIdx = ns[c].hs.msgIdx,
                              !.preWrite = ns[c].hs.shouldWrite]
    /\ calls' = IF r.err = Nil THEN [calls EXCEPT ![c].steps = @ + 1] ELSE calls
    /\ UNCHANGED <<cfg, net, hwm, delivered, concVars, disc>>

\* A call of ProcessMessage on channel c with a message the peer produced
\* (src names it) or with one too short to parse (src = 0).
DoProcessMessage(c) ==
    \E i \in 0..Len(hsNet[Peer(c)]) :
        LET msg == IF i = 0 THEN NoMsg ELSE hsNet[Peer(c)][i]
            r   == ProcessMessage(ns[c], msg)
        IN  /\ r.err # Nil => Counted < MaxEarly
            /\ ns' = [ns EXCEPT ![c] = r.ns]
            /\ last' = [NoCall EXCEPT !.op = "ProcessMessage", !.c = c,
                                      !.status = IF r.err = Nil THEN "ok" ELSE "error",
                                      !.err = r.err, !.src = i,
                                      !.preIdx = ns[c].hs.msgIdx,
                                      !.preWrite = ns[c].hs.shouldWrite]
            /\ calls' = IF r.err = Nil THEN [calls EXCEPT ![c].steps = @ + 1] ELSE calls
            /\ UNCHANGED <<cfg, hsNet, net, hwm, delivered, concVars, disc>>

\* A call of RemoteStatic on channel c, while the handshake is under way.
DoRemoteStatic(c) ==
    LET r == RemoteStatic(ns[c]) IN
    /\ Counted < MaxEarly
    /\ last' = [NoCall EXCEPT !.op = "RemoteStatic", !.c = c, !.status = r.status,
                              !.err = r.err, !.key = r.pk]
    /\ UNCHANGED <<ns, cfg, hsNet, net, hwm, calls, delivered, concVars, disc>>

\* A call of EncryptUnsafe on channel c; the frame goes to the peer.
DoEncrypt(c) ==
    \E p \in Plaintexts :
        LET r == EncryptUnsafe(ns[c], p) IN
        /\ ns["I"].encNonce + ns["R"].encNonce < MaxSeq
        /\ ns[c].enc = NilCS => Counted < MaxEarly
        /\ ns' = [ns EXCEPT ![c] = r.ns]
        /\ net' = IF r.status = "ok" THEN [net EXCEPT ![c] = Append(@, r.out)] ELSE net
        /\ calls' = [calls EXCEPT ![c].enc = @ + 1,
                                  ![c].early = @ \/ ns[c].enc = NilCS]
        /\ last' = [NoCall EXCEPT !.op = "EncryptUnsafe", !.c = c,
                                  !.status = r.status, !.data = p,
                                  !.preCalls = calls[c].enc,
                                  !.preSet = (ns[c].enc # NilCS)]
        /\ UNCHANGED <<cfg, hsNet, hwm, delivered, concVars, disc>>

\* The inputs handed to DecryptUnsafe on channel c, as <<bytes, src, flip,
\* ownHdr>>.  Without a frame (i = 0): nothing, fewer bytes than a header, a
\* bare header with counter 0 or 1.  With frame i of the peer: the frame as
\* sent, with its header replaced by the next counter, with a bit of its
\* body flipped, or cut off one byte before the end of its header.
Variants == {"sent", "header", "flipped", "short"}
ShortInput == PutUint(1, 1)

Input(c, i, v) ==
    IF i = 0
        THEN CASE v = "sent"    -> << <<>>, 0, 0, FALSE >>
               [] v = "short"   -> << ShortInput, 0, 0, FALSE >>
               [] v = "header"  -> << PutUint64[0], 0, 0, FALSE >>
               [] v = "flipped" -> << PutUint64[1], 0, 0, FALSE >>
        ELSE LET f    == net[Peer(c)][i]
                 own  == Uint64[SubSeq(f, 1, nonceSize)]
                 body == f[nonceSize + 1]
             IN  CASE v = "header"  -> << PutUint64[own + 1] \o <<body>>, i, 0, FALSE >>
                   [] v = "flipped" -> << SubSeq(f, 1, nonceSize) \o <<[body EXCEPT !.flip = 1]>>,
                                          i, 1, TRUE >>
                   [] v = "short"   -> << SubSeq(f, 1, nonceSize - 1), i, 0, FALSE >>
                   [] OTHER         -> << f, i, 0, TRUE >>

DoDecrypt(c) ==
    \E i \in 0..Len(net[Peer(c)]), v \in Variants :
        LET in == Input(c, i, v)
            r == DecryptUnsafe(ns[c], in[1])
            whole == in[2] > 0 /\ in[3] = 0 /\ in[4]
        IN  /\ Len(in[1]) >= nonceSize => ns["I"].decNonce + ns["R"].decNonce < MaxRecv
            /\ (ns[c].dec = NilCS /\ Len(in[1]) > 0) => Counted < MaxEarly
            /\ ns' = [ns EXCEPT ![c] = r.ns]
            /\ hwm' = IF r.status = "ok" /\ Len(in[1]) > 0
                          THEN [hwm EXCEPT ![c] = Max(@, r.recvSeq)] ELSE hwm
            /\ calls' = [calls EXCEPT ![c].authErr = @ \/ r.status = "error",
                                      ![c].early = @ \/ (ns[c].dec = NilCS /\ Len(in[1]) >= nonceSize)]
            /\ delivered' = [delivered EXCEPT ![c] =
                               IF @ >= 0 /\ whole /\ in[2] = @ + 1 THEN @ + 1 ELSE -1]
            /\ last' = [NoCall EXCEPT !.op = "DecryptUnsafe", !.c = c,
                                      !.status = r.status,
                                      !.err = IF r.status = "error" THEN "decrypt" ELSE Nil,
                                      !.data = r.data, !.R = r.recvSeq, !.L = r.lastSeq,
                                      !.len = Len(in[1]), !.src = in[2], !.flip = in[3],
                                      !.ownHdr = in[4], !.preHwm = hwm[c],
                                      !.preAuthErr = calls[c].authErr,
                                      !.preSet = (ns[c].dec # NilCS)]
            /\ UNCHANGED <<cfg, hsNet, net, concVars, disc>>

Next ==
    \E c \in Chan :
        \/ DoHandshakeMessage(c)
        \/ DoProcessMessage(c)
        \/ DoRemoteStatic(c)
        \/ DoEncrypt(c)
        \/ DoDecrypt(c)

Spec == Init /\ [][Next]_vars

----------------------------------------------------------------------------
\* Concurrent transport calls.  The handshake is run call by call, each in
\* its turn and each message read in the order it was written, the responder
\* sends its frames, and the threads call EncryptUnsafe and DecryptUnsafe
\* on the initiator's channel without a lock.  A step is one access to the
\* channel's fields: the atomic add, the compare-and-swap, the use of a
\* cipher state.

\* The Configs of two peers that know each other; the XK responder is not
\* told the initiator's key, the handshake transmits it.
PeerConfig(p, c) ==
    [LocalPK |-> StaticOf(c), LocalSK |-> StaticOf(c),
     RemotePK |-> IF p = "XK" /\ c = "R" THEN NullPK ELSE StaticOf(Peer(c)),
     Initiator |-> (c = "I")]

InitConc ==
    \E p \in {"KK", "XK"} :
        /\ cfg = [c \in Chan |-> PeerConfig(p, c)]
        /\ ns = [c \in Chan |-> New(Pattern(p), cfg[c])]
        /\ hsNet = [c \in Chan |-> <<>>]
        /\ net = [c \in Chan |-> <<>>]
        /\ hwm = [c \in Chan |-> 0]
        /\ calls = [c \in Chan |-> [enc |-> 0, steps |-> 0, authErr |-> FALSE, early |-> FALSE]]
        /\ delivered = [c \in Chan |-> 0]
        /\ last = NoCall
        /\ thr = [t \in Threads |-> NoThread]
        /\ obs = NoObs(ns["I"])
        /\ disc = NoProcess

\* Channel c calls HandshakeMessage when it is its turn to write; the
\* message goes to the peer.
HandshakeWrite(c) ==
    LET w == HandshakeMessage(ns[c]) IN
    /\ ~HandshakeFinished(ns[c]) /\ ns[c].hs.shouldWrite
    /\ ns' = [ns EXCEPT ![c] = w.ns]
    /\ hsNet' = [hsNet EXCEPT ![c] = Append(@, w.res)]
    /\ calls' = [calls EXCEPT ![c].steps = @ + 1]
    /\ obs' = NoObs(ns'["I"])
    /\ UNCHANGED <<cfg, net, hwm, delivered, last, thr, disc>>

\* Channel c calls ProcessMessage, when it is its turn to read, with the
\* next message of the peer it has not read yet.
HandshakeRead(c) ==
    LET k == ns[c].hs.msgIdx - Len(hsNet[c]) + 1 IN
    /\ ~HandshakeFinished(ns[c]) /\ ~ns[c].hs.shouldWrite
    /\ k <= Len(hsNet[Peer(c)])
    /\ LET r == ProcessMessage(ns[c], hsNet[Peer(c)][k]) IN
       /\ ns' = [ns EXCEPT ![c] = r.ns]
       /\ calls' = [calls EXCEPT ![c].steps = @ + 1]
    /\ obs' = NoObs(ns'["I"])
    /\ UNCHANGED <<cfg, hsNet, net, hwm, delivered, last, thr, disc>>

\* The responder sends its frames before the initiator's threads begin: a
\* non-empty plaintext first, the empty one next, in turns.
PeerEncrypt ==
    LET r == EncryptUnsafe(ns["R"], IF ns["R"].encNonce % 2 = 0 THEN <<7>> ELSE <<>>) IN
    /\ HandshakeFinished(ns["R"]) /\ ns["R"].enc # NilCS
    /\ ns["R"].encNonce < MaxSeq
    /\ ns' = [ns EXCEPT !["R"] = r.ns]
    /\ net' = [net EXCEPT !["R"] = Append(@, r.out)]
    /\ calls' = [calls EXCEPT !["R"].enc = @ + 1]
    /\ UNCHANGED <<cfg, hsNet, hwm, delivered, last, thr, obs, disc>>

\* The threads that are inside a call.
Busy == {t \in Threads : thr[t].pc \notin {"idle", "done"}}

\* The kinds of calls that have run at the same time, when a call of kind op
\* begins.
Overlaps(op) == {IF op = thr[u].op THEN op \o op ELSE "encdec" : u \in Busy}

\* Thread t calls EncryptUnsafe(p).  want is what the call returns when the
\* EncryptUnsafe calls made so far are run one after the other.
CallEncrypt(t) ==
    \E p \in Plaintexts :
        LET w == EncryptUnsafe(obs.shE, p) IN
        /\ thr[t].pc \in {"idle", "done"}
        /\ HandshakeFinished(ns["I"]) /\ ns["I"].enc # NilCS
        /\ ns["R"].encNonce = MaxSeq
        /\ obs.encCalls < MaxSeq
        /\ thr' = [thr EXCEPT ![t] = [NoThread EXCEPT !.pc = "e128", !.op = "enc", !.in = p,
                                          !.want = [status |-> w.status, data |-> w.out]]]
        /\ obs' = [obs EXCEPT !.shE = w.ns, !.encCallers = @ \cup {t},
                              !.encCalls = @ + 1, !.overlap = @ \cup Overlaps("enc")]
        /\ UNCHANGED <<ns, cfg, hsNet, net, hwm, calls, delivered, last, disc>>

\* Line 128 with the sum kept in the local and not stored.
EncAddNoStore(t) ==
    LET nonce == AddUint64(ns["I"].encNonce) IN
    /\ thr[t].pc = "e128"
    /\ ns' = ns
    /\ thr' = [thr EXCEPT ![t].pc = "e133", ![t].nonce = nonce]
    /\ obs' = [obs EXCEPT !.nonces = Append(@, nonce)]
    /\ UNCHANGED <<cfg, hsNet, net, hwm, calls, delivered, last, disc>>

\* Line 128: nonce := atomic.AddUint64(&ns.encNonce, 1).
EncAdd(t) ==
    LET nonce == AddUint64(ns["I"].encNonce) IN
    /\ thr[t].pc = "e128"
    /\ ns' = [ns EXCEPT !["I"].encNonce = nonce]
    /\ thr' = [thr EXCEPT ![t].pc = "e133", ![t].nonce = nonce]
    /\ obs' = [obs EXCEPT !.nonces = Append(@, nonce)]
    /\ UNCHANGED <<cfg, hsNet, net, hwm, calls, delivered, last, disc>>

\* Lines 130-133: the header is written from the local nonce and the body is
\* sealed under it by the send cipher state; the frame is returned.
EncSeal(t) ==
    LET buf == PutUint64[thr[t].nonce]
        out == buf \o <<CipherEncrypt(ns["I"].enc, thr[t].nonce, thr[t].in)>>
    IN  /\ thr[t].pc = "e133"
        /\ thr' = [thr EXCEPT ![t].pc = "done", ![t].in = <<>>, ![t].nonce = 0,
                              ![t].ret = IF ns["I"].enc = NilCS
                                             THEN [status |-> "panic", data |-> <<>>]
                                             ELSE [status |-> "ok", data |-> out]]
        /\ net' = IF ns["I"].enc = NilCS THEN net ELSE [net EXCEPT !["I"] = Append(@, out)]
        /\ UNCHANGED <<ns, cfg, hsNet, hwm, calls, delivered, last, obs, disc>>

\* The inputs the threads hand to DecryptUnsafe: a frame of the peer, as sent
\* or with a bit of its body flipped.
ConcInputs == {Input("I", i, v)[1] : i \in 1..Len(net["R"]), v \in {"sent", "flipped"}}

\* Thread t calls DecryptUnsafe(in).  want is what the call returns when the
\* DecryptUnsafe calls made so far are run one after the other.
CallDecrypt(t) ==
    \E in \in ConcInputs :
        LET w == DecryptUnsafe(obs.shD, in) IN
        /\ thr[t].pc \in {"idle", "done"}
        /\ HandshakeFinished(ns["I"]) /\ ns["I"].dec # NilCS
        /\ ns["R"].encNonce = MaxSeq
        /\ obs.decCalls < MaxRecv
        /\ thr' = [thr EXCEPT ![t] = [NoThread EXCEPT !.pc = "d147", !.op = "dec", !.in = in,
                                          !.want = [status |-> w.status, data |-> w.data]]]
        /\ obs' = [obs EXCEPT !.shD = w.ns, !.decCallers = @ \cup {t},
                              !.decCalls = @ + 1, !.overlap = @ \cup Overlaps("dec")]
        /\ UNCHANGED <<ns, cfg, hsNet, net, hwm, calls, delivered, last, disc>>

\* Line 147 advancing the send counter in place of the receive counter.
DecAddOnSendCounter(t) ==
    LET added == AddUint64(ns["I"].encNonce) IN
    /\ thr[t].pc = "d147"
    /\ ns' = [ns EXCEPT !["I"].encNonce = added]
    /\ thr' = [thr EXCEPT ![t].pc = "d149",
                          ![t].recvSeq = Uint64[SubSeq(thr[t].in, 1, nonceSize)],
                          ![t].lastSeq = added - 1]
    /\ obs' = [obs EXCEPT !.Ls = Append(@, added - 1)]
    /\ UNCHANGED <<cfg, hsNet, net, hwm, calls, delivered, last, disc>>

\* Line 147 with the sum not stored.
DecAddNoStore(t) ==
    LET added == AddUint64(ns["I"].decNonce) IN
    /\ thr[t].pc = "d147"
    /\ ns' = ns
    /\ thr' = [thr EXCEPT ![t].pc = "d149",
                          ![t].recvSeq = Uint64[SubSeq(thr[t].in, 1, nonceSize)],
                          ![t].lastSeq = added - 1]
    /\ obs' = [obs EXCEPT !.Ls = Append(@, added - 1)]
    /\ UNCHANGED <<cfg, hsNet, net, hwm, calls, delivered, last, disc>>

\* Lines 139-147: the input has at least 8 bytes; recvSeq is parsed from the
\* header and lastSeq := atomic.AddUint64(&ns.decNonce, 1) - 1.
DecAdd(t) ==
    LET added == AddUint64(ns["I"].decNonce) IN
    /\ thr[t].pc = "d147"
    /\ ns' = [ns EXCEPT !["I"].decNonce = added]
    /\ thr' = [thr EXCEPT ![t].pc = "d149",
                          ![t].recvSeq = Uint64[SubSeq(thr[t].in, 1, nonceSize)],
                          ![t].lastSeq = added - 1]
    /\ obs' = [obs EXCEPT !.Ls = Append(@, added - 1)]
    /\ UNCHANGED <<cfg, hsNet, net, hwm, calls, delivered, last, disc>>

\* Lines 149-154: a counter not above lastSeq is rejected; otherwise
\* atomic.CompareAndSwapUint64(&ns.decNonce, lastSeq, recvSeq).
DecCheck(t) ==
    /\ thr[t].pc = "d149"
    /\ IF thr[t].recvSeq <= thr[t].lastSeq
           THEN /\ thr' = [thr EXCEPT ![t].pc = "done", ![t].in = <<>>,
                                      ![t].recvSeq = 0, ![t].lastSeq = 0,
                                      ![t].ret = [status |-> "rejected", data |-> <<>>]]
                /\ ns' = ns
           ELSE /\ thr' = [thr EXCEPT ![t].pc = "d156"]
                /\ ns' = [ns EXCEPT !["I"].decNonce =
                              CompareAndSwapUint64(@, thr[t].lastSeq, thr[t].recvSeq)]
    /\ UNCHANGED <<cfg, hsNet, net, hwm, calls, delivered, last, obs, disc>>

\* Line 156: the body is opened by the receive cipher state under recvSeq.
DecOpen(t) ==
    LET d == CipherDecrypt(ns["I"].dec, thr[t].recvSeq,
                           SubSeq(thr[t].in, nonceSize + 1, Len(thr[t].in)))
    IN  /\ thr[t].pc = "d156"
        /\ thr' = [thr EXCEPT ![t].pc = "done", ![t].in = <<>>,
                              ![t].recvSeq = 0, ![t].lastSeq = 0,
                              ![t].ret = IF ns["I"].dec = NilCS
                                             THEN [status |-> "panic", data |-> <<>>]
                                         ELSE [status |-> IF d.err = Nil THEN "ok" ELSE "error",
                                               data |-> d.pt]]
        /\ UNCHANGED <<ns, cfg, hsNet, net, hwm, calls, delivered, last, obs, disc>>

NextConc ==
    \/ \E c \in Chan : HandshakeWrite(c) \/ HandshakeRead(c)
    \/ PeerEncrypt
    \/ \E t \in Threads :
        \/ CallEncrypt(t)
        \/ EncAdd(t)
        \/ EncSeal(t)
        \/ CallDecrypt(t)
        \/ DecAdd(t)
        \/ DecCheck(t)
        \/ DecOpen(t)

SpecConc == InitConc /\ [][NextConc]_vars

----------------------------------------------------------------------------
\* The dmsg-discovery command (src/cmd/dmsg-discovery/commands/root.go):
\* rootCmd.Run from the creation of its context (line 79, the Start entry
\* already logged) to its return and listenAndServe
\* in the goroutine Run starts.  main and srv are the lines the two are at.

\* The values of the --addr flag: the default and the empty string.
Addrs == {":9090", ""}

\* The error net.Listen returns when it cannot bind, and the error
\* http.Server.Serve returns when accepting fails.
ListenErr == "listen: address already in use"

\* The log entries Run makes on entry (lines 55-62) and, deferred, on return.
StartLogMessage == "discord.StartLogMessage"
StopLogMessage == "discord.StopLogMessage"
ServeErr == "accept: use of closed network connection"

InitDisc ==
    /\ cfg = [c \in Chan |-> PeerConfig("KK", c)]
    /\ ns = [c \in Chan |-> KKAndSecp256k1(cfg[c])]
    /\ hsNet = [c \in Chan |-> <<>>]
    /\ net = [c \in Chan |-> <<>>]
    /\ hwm = [c \in Chan |-> 0]
    /\ calls = [c \in Chan |-> [enc |-> 0, steps |-> 0, authErr |-> FALSE, early |-> FALSE]]
    /\ delivered = [c \in Chan |-> 0]
    /\ last = NoCall
    /\ thr = [t \in Threads |-> NoThread]
    /\ obs = NoObs(ns["I"])
    /\ \E a \in Addrs : disc = [NoProcess EXCEPT !.addr = a, !.main = "l79",
                                                 !.log = <<StartLogMessage>>,
                                                 !.proc = "running"]

\* Line 79: ctx, cancel := cmdutil.SignalContext(...).
RunSignalContext ==
    /\ disc.proc = "running" /\ disc.main = "l79"
    /\ disc' = [disc EXCEPT !.main = "l81", !.ctx = "live"]
    /\ UNCHANGED <<noiseVars, concVars>>

\* Line 81: go a.RunBackgroundTasks(ctx, log).
RunGoBackground ==
    /\ disc.proc = "running" /\ disc.main = "l81"
    /\ disc' = [disc EXCEPT !.main = "l82", !.bg = "running"]
    /\ UNCHANGED <<noiseVars, concVars>>

\* Lines 82-88: the "Serving" log entry, then the goroutine that calls
\* listenAndServe is started.
RunGoServe ==
    /\ disc.proc = "running" /\ disc.main = "l82"
    /\ disc' = [disc EXCEPT !.main = "l89", !.srv = "l116",
                            !.log = Append(@, "Serving discovery API...")]
    /\ UNCHANGED <<noiseVars, concVars>>

\* Lines 89-90: <-ctx.Done(); Run returns: its deferred cancel runs, then
\* the deferred log call of lines 58/61 makes the Stop entry, and the process
\* exits.
RunWait ==
    /\ disc.proc = "running" /\ disc.main = "l89" /\ disc.ctx = "cancelled"
    /\ disc' = [disc EXCEPT !.main = "returned", !.proc = "exited",
                            !.log = Append(@, StopLogMessage)]
    /\ UNCHANGED <<noiseVars, concVars>>

\* A signal reaches the context made by SignalContext.
Signal ==
    /\ disc.proc = "running" /\ disc.ctx = "live"
    /\ disc' = [disc EXCEPT !.ctx = "cancelled"]
    /\ UNCHANGED <<noiseVars, concVars>>

\* The background tasks stop once the context is done.
BackgroundStop ==
    /\ disc.proc = "running" /\ disc.bg = "running" /\ disc.ctx = "cancelled"
    /\ disc' = [disc EXCEPT !.bg = "stopped"]
    /\ UNCHANGED <<noiseVars, concVars>>

\* Lines 116-122: an empty addr becomes ":http"; net.Listen binds or fails
\* (then ln is nil); ln is wrapped in the proxy listener, whose Close is
\* deferred.
ServeListen ==
    \E bound \in BOOLEAN :
        /\ disc.proc = "running" /\ disc.srv = "l116"
        /\ disc' = [disc EXCEPT !.srv = "l123",
                                !.addr = IF @ = "" THEN ":http" ELSE @,
                                !.ln = IF bound THEN "open" ELSE "nil",
                                !.err = IF bound THEN Nil ELSE ListenErr]
        /\ UNCHANGED <<noiseVars, concVars>>

\* Lines 123-126: with an error from Listen the function returns it;
\* otherwise it serves.
ServeCheckErr ==
    /\ disc.proc = "running" /\ disc.srv = "l123"
    /\ disc' = IF disc.err # Nil
                   THEN [disc EXCEPT !.srv = "l122", !.ret = disc.err]
                   ELSE [disc EXCEPT !.srv = "l126"]
    /\ UNCHANGED <<noiseVars, concVars>>

\* Line 126: srv.Serve accepts and handles a request.
ServeRequest ==
    /\ disc.proc = "running" /\ disc.srv = "l126" /\ disc.ln = "open"
    /\ disc.served < MaxServe
    /\ disc' = [disc EXCEPT !.served = @ + 1]
    /\ UNCHANGED <<noiseVars, concVars>>

\* Line 126: accepting fails and srv.Serve returns its error.
ServeFail ==
    /\ disc.proc = "running" /\ disc.srv = "l126"
    /\ disc' = [disc EXCEPT !.srv = "l122", !.ret = ServeErr]
    /\ UNCHANGED <<noiseVars, concVars>>

\* Line 122, run when listenAndServe returns: proxyListener.Close() calls
\* Close on the wrapped listener; on a nil listener the call panics, and a
\* panic in a goroutine ends the process.
DeferredClose ==
    /\ disc.proc = "running" /\ disc.srv = "l122"
    /\ disc' = IF disc.ln = "nil"
                   THEN [disc EXCEPT !.srv = "panic", !.proc = "crashed"]
                   ELSE [disc EXCEPT !.srv = "l84", !.ln = "closed"]
    /\ UNCHANGED <<noiseVars, concVars>>

\* Lines 84-85: the error listenAndServe returned is logged.
ServeLogError ==
    /\ disc.proc = "running" /\ disc.srv = "l84"
    /\ disc' = IF disc.ret # Nil
                   THEN [disc EXCEPT !.srv = "l86",
                                     !.log = Append(@, "ListenAndServe: " \o disc.ret)]
                   ELSE [disc EXCEPT !.srv = "exited"]
    /\ UNCHANGED <<noiseVars, concVars>>

\* Line 86: cancel().
ServeCancel ==
    /\ disc.proc = "running" /\ disc.srv = "l86"
    /\ disc' = [disc EXCEPT !.srv = "exited", !.ctx = "cancelled"]
    /\ UNCHANGED <<noiseVars, concVars>>

NextDisc ==
    \/ RunSignalContext
    \/ RunGoBackground
    \/ RunGoServe
    \/ RunWait
    \/ Signal
    \/ BackgroundStop
    \/ ServeListen
    \/ ServeCheckErr
    \/ ServeRequest
    \/ ServeFail
    \/ DeferredClose
    \/ ServeLogError
    \/ ServeCancel

SpecDisc == InitDisc /\ [][NextDisc]_vars

----------------------------------------------------------------------------
\* Properties.

\* The counter in the header of a frame, the counter its body was sealed
\* under and the plaintext sealed in it.
HeaderOf(f) == Uint(SubSeq(f, 1, nonceSize))
NonceOf(f) == f[nonceSize + 1].nonce
PlainOf(f) == f[nonceSize + 1].pt

\* Every transport call counted so far found the cipher state it uses: both
\* channels were in transport mode whenever they encrypted or decrypted.
TransportOnly == \A c \in Chan : ~calls[c].early

\* The last call was DecryptUnsafe with at least a header.
Decrypted == last.op = "DecryptUnsafe" /\ last.len >= nonceSize

\* The last call was DecryptUnsafe on frame last.src of the peer, unaltered.
DecryptedFrame == Decrypted /\ last.src > 0 /\ last.flip = 0 /\ last.ownHdr

\* C1: every DecryptUnsafe call that returns plaintext carries a counter
\* strictly greater than every counter accepted before on that channel, so
\* no frame is accepted twice and a counter at or below the highest accepted
\* one is rejected.
C1_AcceptedAboveHighWaterMark ==
    (Decrypted /\ TransportOnly /\ last.status = "ok") => last.R > last.preHwm

\* C2: an authentic frame whose counter is strictly greater than the highest
\* counter accepted so far is accepted and its plaintext returned, whatever
\* the gaps and however many earlier calls were rejected (no call having
\* failed authentication).  Stated for a channel that has accepted a frame
\* before.
C2_FreshFrameAccepted ==
    (DecryptedFrame /\ TransportOnly /\ ~last.preAuthErr /\ last.preHwm >= 1
        /\ last.R > last.preHwm)
        => (last.status = "ok" /\ last.data = PlainOf(net[Peer(last.c)][last.src]))

\* C3: the k-th EncryptUnsafe call on a channel embeds counter k in the
\* 8-byte header and seals under the same value; the counters of a channel's
\* frames strictly increase, and are exactly 1..N when every call was made
\* in transport mode.
C3_EncryptCounters ==
    /\ (last.op = "EncryptUnsafe" /\ last.status = "ok") =>
           LET f == net[last.c][Len(net[last.c])] IN
           /\ HeaderOf(f) = last.preCalls + 1
           /\ NonceOf(f) = HeaderOf(f)
           /\ SubSeq(f, 1, nonceSize) = PutUint(last.preCalls + 1, nonceSize)
    /\ \A c \in Chan :
           /\ \A i, j \in 1..Len(net[c]) : i < j => HeaderOf(net[c][i]) < HeaderOf(net[c][j])
           /\ calls[c].enc = Len(net[c]) =>
                  \A i \in 1..Len(net[c]) : HeaderOf(net[c][i]) = i

\* C3 witness: a channel's second EncryptUnsafe call has returned a frame
\* with counter 2.
C3_Witness ==
    /\ last.op = "EncryptUnsafe" /\ last.status = "ok"
    /\ Len(net[last.c]) = 2
    /\ HeaderOf(net[last.c][2]) = 2

\* C4: with the handshake complete, when the frames of the sender are handed
\* to the receiver's DecryptUnsafe exactly once and in order, every call
\* returns exactly the plaintext that was encrypted (the empty one included),
\* with no error and no rejection.
C4_RoundTrip ==
    (Decrypted /\ last.preSet /\ delivered[last.c] >= 1) =>
        /\ last.src = delivered[last.c]
        /\ last.status = "ok"
        /\ last.data = PlainOf(net[Peer(last.c)][last.src])

\* C4 witness: the second frame, sealing the empty plaintext, has been
\* handed over in order after the first and returned as the empty plaintext.
C4_Witness ==
    /\ Decrypted /\ last.preSet /\ delivered[last.c] = 2
    /\ PlainOf(net[Peer(last.c)][2]) = <<>>
    /\ PlainOf(net[Peer(last.c)][1]) = <<7>>
    /\ last.status = "ok" /\ last.data = <<>>

\* A handshake call was made out of turn or after the pattern's last step.
OutOfTurn ==
    \/ last.op = "HandshakeMessage" /\
           (~last.preWrite \/ last.preIdx >= Len(Pattern(ns[last.c].pattern).Messages))
    \/ last.op = "ProcessMessage" /\
           (last.preWrite \/ last.preIdx >= Len(Pattern(ns[last.c].pattern).Messages))

Established(c) == ns[c].enc # NilCS /\ ns[c].dec # NilCS

\* C5: for KK and XK, once the handshake has completed, the send cipher
\* state of each peer is the receive cipher state of the other, and on each
\* peer the two differ; the step that completes the handshake on a channel,
\* written (HandshakeMessage) or read (ProcessMessage), sets both.
C5_CipherStatesPair ==
    /\ \A c \in Chan :
           /\ (ns[c].enc # NilCS /\ ns[Peer(c)].dec # NilCS) => ns[c].enc = ns[Peer(c)].dec
           /\ ns[c].enc # NilCS => ns[c].enc # ns[c].dec
    /\ (last.op \in {"HandshakeMessage", "ProcessMessage"} /\ last.status = "ok"
            /\ HandshakeFinished(ns[last.c]))
           => Established(last.c)

\* C5 witness: XK, three messages; the initiator wrote the last message, the
\* responder has just read it, and both hold their pair of cipher states.
C5_Witness ==
    /\ ns["I"].pattern = "XK"
    /\ last.op = "ProcessMessage" /\ last.c = "R" /\ last.status = "ok"
    /\ HandshakeFinished(ns["I"]) /\ HandshakeFinished(ns["R"])
    /\ Established("I") /\ Established("R")
    /\ calls["I"].steps = 3 /\ calls["R"].steps = 3

\* C6: in every reachable state, HandshakeFinished implies that both cipher
\* states are set, and it holds exactly when the channel has performed all
\* steps of its pattern without error.
C6_FinishedGatesTransport ==
    \A c \in Chan :
        /\ HandshakeFinished(ns[c]) => Established(c)
        /\ HandshakeFinished(ns[c]) <=>
               calls[c].steps = Len(Pattern(ns[c].pattern).Messages)

\* C7: once the handshake has completed on a channel, no later call makes
\* HandshakeFinished false or changes, replaces or clears a cipher state.
C7_TransportIrreversible ==
    [][\A c \in Chan :
           (HandshakeFinished(ns[c]) /\ Established(c)) =>
               /\ HandshakeFinished(ns'[c])
               /\ ns'[c].enc = ns[c].enc
               /\ ns'[c].dec = ns[c].dec]_vars

\* C8: a HandshakeMessage or ProcessMessage call made out of turn, or after
\* the pattern's last step, returns an error and leaves the handshake
\* cursor where it was.
C8_OutOfTurnIsError ==
    OutOfTurn =>
        /\ last.status = "error" /\ last.err # Nil
        /\ ns[last.c].hs.msgIdx = last.preIdx
        /\ ns[last.c].hs.shouldWrite = last.preWrite

\* C8 witness: the responder called HandshakeMessage while the initiator's
\* first message was due and got an error.
C8_Witness ==
    /\ last.op = "HandshakeMessage" /\ last.c = "R"
    /\ ~last.preWrite /\ last.preIdx = 0
    /\ last.status = "error"

\* The channel was constructed with a RemotePK that is not the peer's key.
PinnedOther(c) == cfg[c].RemotePK \notin {NullPK, StaticOf(Peer(c))}

\* The message read at cursor idx on channel c involves the peer's static
\* key: every message of KK (both keys are hashed in beforehand and mixed by
\* ss), the responder's message of XK (es) and the initiator's last one (s, se).
UsesPeerStatic(c, idx) ==
    ~(ns[c].pattern = "XK" /\ c = "R" /\ idx < 2)

\* C9: on a channel constructed with a non-null RemotePK, a handshake with a
\* peer whose static key is another one never completes: ProcessMessage of
\* a message that involves the peer's static key returns an error,
\* HandshakeFinished stays false, no cipher state is derived and
\* RemoteStatic stays the pinned key.
C9_IdentityPinning ==
    \A c \in Chan :
        PinnedOther(c) =>
            /\ ~HandshakeFinished(ns[c])
            /\ ns[c].enc = NilCS /\ ns[c].dec = NilCS
            /\ RemoteStatic(ns[c]).pk = cfg[c].RemotePK
            /\ (last.op = "ProcessMessage" /\ last.c = c
                    /\ UsesPeerStatic(c, last.preIdx)) => last.status = "error"

\* C9 witness: an XK responder pinned to a third party's key was handed the
\* initiator's final message, which carries the initiator's static key, and
\* returned an error.
C9_Witness ==
    /\ ns["R"].pattern = "XK" /\ PinnedOther("R")
    /\ last.op = "ProcessMessage" /\ last.c = "R"
    /\ Len(hsNet["I"]) = 2 /\ last.src = 2 /\ hsNet["I"][2].s # <<>>
    /\ last.preIdx = 2 /\ last.status = "error"
    /\ HandshakeFinished(ns["I"])

\* C10 as stated: a frame of the peer with a bit of its body flipped yields a
\* decryption error in every channel state.  Stated for the states of a
\* channel in transport mode, its receive cipher state set.
C10_TamperedAlwaysError ==
    (Decrypted /\ last.src > 0 /\ last.flip = 1 /\ last.preSet /\ TransportOnly)
        => last.status = "error"

\* C10 amended: a frame of the peer with a bit of its body flipped never
\* yields plaintext: the call is rejected as stale when its counter is not
\* above the value read from the receive counter, returns a decryption error
\* when it is and the receive cipher state is set, and aborts when that state
\* is not set; and whatever DecryptUnsafe returns for a frame of the peer is
\* the plaintext that was encrypted.
C10_TamperedNeverPlaintext ==
    /\ (Decrypted /\ last.src > 0 /\ last.flip = 1) =>
           /\ last.data = <<>>
           /\ last.status = IF last.R <= last.L THEN "rejected"
                            ELSE IF last.preSet THEN "error" ELSE "panic"
    /\ (Decrypted /\ last.status = "ok") =>
           /\ last.src > 0
           /\ last.data = PlainOf(net[Peer(last.c)][last.src])

\* C10 witness: a tampered frame whose counter was not above the value read
\* from the receive counter was rejected as stale, without an error.
C10_Witness ==
    /\ Decrypted /\ last.src > 0 /\ last.flip = 1 /\ last.preSet
    /\ last.R <= last.L /\ last.status = "rejected" /\ last.err = Nil

\* C11: when a channel enters transport mode both sequence counters are 0,
\* whatever was invoked on it before: the step that completes the handshake
\* leaves both at 0, and the first frame EncryptUnsafe produces carries
\* counter 1.
C11_CountersZeroAtEntry ==
    /\ (last.op \in {"HandshakeMessage", "ProcessMessage"} /\ last.status = "ok"
            /\ HandshakeFinished(ns[last.c]) /\ Established(last.c))
           => (ns[last.c].encNonce = 0 /\ ns[last.c].decNonce = 0)
    /\ (last.op = "EncryptUnsafe" /\ last.status = "ok" /\ Len(net[last.c]) = 1)
           => HeaderOf(net[last.c][1]) = 1

\* C12: DecryptUnsafe with empty input returns an empty plaintext and no
\* error and changes no field of the channel (counters, cipher states,
\* handshake state), in every channel state.
C12_EmptyInputNoOp ==
    [][(last'.op = "DecryptUnsafe" /\ last'.len = 0) =>
           /\ ns' = ns
           /\ last'.status = "ok" /\ last'.err = Nil /\ last'.data = <<>>]_vars

\* C12 witness: DecryptUnsafe was called with empty input on a channel whose
\* handshake has begun and not completed.
C12_Witness ==
    /\ last.op = "DecryptUnsafe" /\ last.len = 0 /\ last.status = "ok"
    /\ calls[last.c].steps = 1 /\ ~HandshakeFinished(ns[last.c])
    /\ ns[last.c].dec = NilCS

\* C14: RemoteStatic returns the pinned key on a channel constructed with a
\* RemotePK, and the key the handshake revealed once the pattern's last step
\* is done; before that, on a channel constructed without one, it returns no
\* key and fails with the error of NewPubKey (raised as a panic).
C14_RemoteStatic ==
    /\ \A c \in Chan :
           LET r == RemoteStatic(ns[c]) IN
           IF cfg[c].RemotePK # NullPK
               THEN r.status = "ok" /\ r.pk = cfg[c].RemotePK
           ELSE IF calls[c].steps = Len(Pattern(ns[c].pattern).Messages)
               THEN r.status = "ok" /\ r.pk = cfg[Peer(c)].LocalPK
           ELSE r.status = "panic" /\ r.err # Nil /\ r.pk = NullPK
    /\ last.op = "RemoteStatic" =>
           LET r == RemoteStatic(ns[last.c]) IN
           last.status = r.status /\ last.err = r.err /\ last.key = r.pk

\* C14 witness: an XK responder constructed without RemotePK was asked for
\* the remote static key after reading the initiator's first message, and
\* the call failed.
C14_Witness ==
    /\ last.op = "RemoteStatic" /\ last.c = "R" /\ ns["R"].pattern = "XK"
    /\ cfg["R"].RemotePK = NullPK /\ calls["R"].steps = 1
    /\ last.status = "panic" /\ last.err # Nil /\ last.key = NullPK

\* C15: after a DecryptUnsafe call that accepts a frame with counter R, the
\* receive counter (the value the next call reads as L) is at least R.
C15_CounterReachesAccepted ==
    (Decrypted /\ TransportOnly /\ last.status = "ok") => ns[last.c].decNonce >= last.R

\* C17 as stated: EncryptUnsafe without a send cipher state aborts, and
\* DecryptUnsafe with a non-empty input and without a receive cipher state
\* aborts too (never returns normally).
C17_EarlyCallsAbort ==
    /\ (last.op = "EncryptUnsafe" /\ ~last.preSet) => last.status = "panic"
    /\ (last.op = "DecryptUnsafe" /\ last.len > 0 /\ ~last.preSet)
           => last.status = "panic"

\* C17 amended: EncryptUnsafe without a send cipher state aborts and hands
\* out no frame; DecryptUnsafe with a non-empty input and without a receive
\* cipher state never returns plaintext: it aborts, except that an input of
\* at least 8 bytes whose counter is not above the value read from the
\* receive counter returns normally as rejected (nil, nil).
C17_EarlyCallsNoResult ==
    /\ (last.op = "EncryptUnsafe" /\ ~last.preSet) =>
           /\ last.status = "panic"
           /\ Len(net[last.c]) < calls[last.c].enc
    /\ (last.op = "DecryptUnsafe" /\ last.len > 0 /\ ~last.preSet) =>
           /\ last.data = <<>>
           /\ last.status = IF last.len >= nonceSize /\ last.R <= last.L
                                THEN "rejected" ELSE "panic"

\* C17 witness: before the handshake, DecryptUnsafe was handed a bare header
\* with counter 0 and returned normally, rejecting it.
C17_Witness ==
    /\ Decrypted /\ ~last.preSet /\ ~HandshakeFinished(ns[last.c])
    /\ last.R = 0 /\ last.L = 0 /\ last.status = "rejected"

\* C18: DecryptUnsafe with an input of 1 to 7 bytes aborts and changes no
\* field of the channel: the receive counter is neither read nor advanced.
C18_ShortInputAborts ==
    [][(last'.op = "DecryptUnsafe" /\ last'.len \in 1..(nonceSize - 1)) =>
           /\ ns' = ns
           /\ last'.status = "panic" /\ last'.data = <<>>]_vars

\* C18 witness: in transport mode, DecryptUnsafe was handed the first 7 bytes
\* of a frame of the peer and aborted.
C18_Witness ==
    /\ last.op = "DecryptUnsafe" /\ last.len = nonceSize - 1 /\ last.src > 0
    /\ last.preSet /\ last.status = "panic"

\* All EncryptUnsafe calls were made by one thread and all DecryptUnsafe
\* calls by one thread: one stream of each.
OneSenderOneReceiver ==
    Cardinality(obs.encCallers) <= 1 /\ Cardinality(obs.decCallers) <= 1

\* C13: with one stream of EncryptUnsafe calls and one stream of
\* DecryptUnsafe calls on a channel, under every interleaving of their steps
\* each call returns what it returns when the streams are run one after the
\* other, and when no call is under way the channel's fields are those the
\* sequential runs leave (send counter of the one, receive counter of the
\* other).
C13_SenderReceiverIndependent ==
    OneSenderOneReceiver =>
        /\ \A t \in Threads : thr[t].pc = "done" => thr[t].ret = thr[t].want
        /\ Busy = {} => ns["I"] = [obs.shE EXCEPT !.decNonce = obs.shD.decNonce]

\* C13 witness: one thread has made two EncryptUnsafe calls and another two
\* DecryptUnsafe calls, calls of the two kinds having run at the same time;
\* all have returned, the last DecryptUnsafe call with the plaintext of the
\* peer's second frame.
C13_Witness ==
    /\ OneSenderOneReceiver /\ "encdec" \in obs.overlap /\ Busy = {}
    /\ obs.encCalls = 2 /\ obs.decCalls = 2 /\ ns["I"].decNonce = 2
    /\ \E t, u \in Threads :
           /\ thr[t].op = "enc" /\ thr[t].ret.status = "ok"
           /\ thr[u].op = "dec" /\ thr[u].ret.status = "ok"
           /\ thr[u].ret.data = PlainOf(net["R"][2])

\* C16: every DecryptUnsafe call with at least 8 bytes advances the receive
\* counter by one whatever its outcome, so that under every interleaving the
\* counter equals the number of calls that have read it (it never
\* decreases), each call has read a different L, and every L read is below
\* the counter.
C16_ReceiveCounterAdvances ==
    /\ ns["I"].decNonce = Len(obs.Ls)
    /\ \A i, j \in 1..Len(obs.Ls) : i # j => obs.Ls[i] # obs.Ls[j]
    /\ \A t \in Threads :
           thr[t].pc \in {"d149", "d156"} => thr[t].lastSeq < ns["I"].decNonce

\* C16 witness: three DecryptUnsafe calls, some of them at the same time,
\* have read L = 0, 1, 2; one has failed authentication and one was rejected
\* as stale.
C16_Witness ==
    /\ "decdec" \in obs.overlap /\ Busy = {}
    /\ obs.Ls = <<0, 1, 2>> /\ ns["I"].decNonce = 3
    /\ \E t, u \in Threads :
           thr[t].ret.status = "error" /\ thr[u].ret.status = "rejected"

\* C19: under every interleaving of EncryptUnsafe calls made by several
\* threads, each call obtains a different counter value from the atomic add,
\* the header of every frame carries the value its body was sealed under,
\* no two frames share a counter, and the send counter equals the number of
\* calls that have passed the add: N once N calls have returned.
C19_DistinctSendNonces ==
    /\ \A i, j \in 1..Len(obs.nonces) : i # j => obs.nonces[i] # obs.nonces[j]
    /\ \A i \in 1..Len(net["I"]) : HeaderOf(net["I"][i]) = NonceOf(net["I"][i])
    /\ \A i, j \in 1..Len(net["I"]) :
           i # j => NonceOf(net["I"][i]) # NonceOf(net["I"][j])
    /\ ns["I"].encNonce = Len(obs.nonces)
    /\ {t \in Busy : thr[t].op = "enc"} = {} =>
           (ns["I"].encNonce = obs.encCalls /\ Len(net["I"]) = obs.encCalls)

\* C19 witness: two threads have called EncryptUnsafe at the same time; the
\* call that obtained counter 2 returned first, and the send counter is 2.
C19_Witness ==
    /\ "encenc" \in obs.overlap /\ Cardinality(obs.encCallers) = 2 /\ Busy = {}
    /\ Len(net["I"]) = 2 /\ HeaderOf(net["I"][1]) = 2 /\ HeaderOf(net["I"][2]) = 1
    /\ ns["I"].encNonce = 2

\* The bind has failed: net.Listen returned an error and no listener.
ListenFailed == disc.err = ListenErr

\* C20: when binding the listen address fails, listenAndServe returns the
\* listen error without serving and without aborting on the unset listener:
\* the process is not ended by a panic, and once the serving goroutine has
\* left listenAndServe the error is the one Listen returned, it is in the
\* log and the context is cancelled.
C20_ListenErrorReturned ==
    ListenFailed =>
        /\ disc.proc # "crashed" /\ disc.srv # "panic"
        /\ disc.served = 0
        /\ disc.srv \in {"l84", "l86", "exited"} => disc.ret = ListenErr
        /\ disc.srv = "exited" =>
               (disc.ctx = "cancelled"
                    /\ \E i \in 1..Len(disc.log) :
                           disc.log[i] = "ListenAndServe: " \o ListenErr)

====
